---- MODULE Spec2Model ----
(***************************************************************************)
(* A model of src/convlstm.py: the ConvLSTMCell gate computation and the   *)
(* ConvLSTM sequence runner.  Tensors are records of a shape and a data    *)
(* function; numbers are fixed-point integers in units of 1/One, rounded   *)
(* after every multiplication the way floating point rounds.               *)
(***************************************************************************)
EXTENDS Integers, Sequences, FiniteSets, TLC

(***************************************************************************)
(* Fixed-point arithmetic standing for torch's float arithmetic.           *)
(***************************************************************************)
\* the fixed-point representation of 1.0
One == 4

\* a / b rounded to the nearest integer (halves up), b > 0
RoundDiv(a, b) == (2 * a + b) \div (2 * b)

\* product of two fixed-point numbers
FMul(a, b) == RoundDiv(a * b, One)

\* torch.sigmoid on fixed-point numbers: round(One * sigmoid(x / One))
Sigmoid(x) ==
  IF x <= -8 THEN 0
  ELSE IF x <= -3 THEN 1
  ELSE IF x <= 2 THEN 2
  ELSE IF x <= 7 THEN 3
  ELSE 4

\* torch.tanh on fixed-point numbers: round(One * tanh(x / One)), an odd function
TanhAbs(a) ==
  IF a = 0 THEN 0
  ELSE IF a = 1 THEN 1
  ELSE IF a = 2 THEN 2
  ELSE IF a <= 5 THEN 3
  ELSE 4

Tanh(x) == IF x < 0 THEN 0 - TanhAbs(0 - x) ELSE TanhAbs(x)

\* largest r with r * r <= n
RECURSIVE IsqrtFrom(_, _)
IsqrtFrom(n, r) == IF (r + 1) * (r + 1) > n THEN r ELSE IsqrtFrom(n, r + 1)

Isqrt(n) == IF n <= 0 THEN 0 ELSE IsqrtFrom(n, 0)

\* the function f, its values computed once rather than at every use
Computed(f) == IF f = f THEN f ELSE f

\* f[1] + ... + f[n]
RECURSIVE SumTo(_, _)
SumTo(f, n) == IF n = 0 THEN 0 ELSE f[n] + SumTo(f, n - 1)

RECURSIVE SumSet(_, _)
SumSet(f, S) ==
  IF S = {} THEN 0
  ELSE LET x == CHOOSE y \in S : TRUE IN f[x] + SumSet(f, S \ {x})

(***************************************************************************)
(* Tensors.  A 4-D tensor has shape <<B, C, H, W>>, a 5-D tensor           *)
(* <<d0, d1, C, H, W>>.  An operation that raises in torch yields Raised.  *)
(***************************************************************************)
Idx4(s) == (1..s[1]) \X (1..s[2]) \X (1..s[3]) \X (1..s[4])

Idx5(s) == (1..s[1]) \X (1..s[2]) \X (1..s[3]) \X (1..s[4]) \X (1..s[5])

Raised == [ok |-> FALSE, shape |-> <<>>, data |-> <<>>]

\* torch.zeros(b, c, h, w): a negative dimension raises
Zeros(s) ==
  IF \E d \in 1..4 : s[d] < 0 THEN Raised
  ELSE [ok |-> TRUE, shape |-> s, data |-> Computed([i \in Idx4(s) |-> 0])]

\* broadcasting of two 4-D shapes: equal sizes, or one of them 1
CanBroadcast(s1, s2) == \A d \in 1..4 : s1[d] = s2[d] \/ s1[d] = 1 \/ s2[d] = 1

BroadcastShape(s1, s2) == [d \in 1..4 |-> IF s1[d] = 1 THEN s2[d] ELSE s1[d]]

BIdx(s, i) == [d \in 1..4 |-> IF s[d] = 1 THEN 1 ELSE i[d]]

\* elementwise a + b
TAdd(a, b) ==
  IF ~a.ok \/ ~b.ok THEN Raised
  ELSE IF ~CanBroadcast(a.shape, b.shape) THEN Raised
  ELSE LET s == BroadcastShape(a.shape, b.shape) IN
       [ok |-> TRUE, shape |-> s,
        data |-> Computed([i \in Idx4(s) |-> a.data[BIdx(a.shape, i)] + b.data[BIdx(b.shape, i)]])]

\* elementwise a * b
TMul(a, b) ==
  IF ~a.ok \/ ~b.ok THEN Raised
  ELSE IF ~CanBroadcast(a.shape, b.shape) THEN Raised
  ELSE LET s == BroadcastShape(a.shape, b.shape) IN
       [ok |-> TRUE, shape |-> s,
        data |-> Computed([i \in Idx4(s) |->
                    FMul(a.data[BIdx(a.shape, i)], b.data[BIdx(b.shape, i)])])]

TSigmoid(a) ==
  IF ~a.ok THEN Raised
  ELSE [ok |-> TRUE, shape |-> a.shape, data |-> Computed([i \in DOMAIN a.data |-> Sigmoid(a.data[i])])]

TTanh(a) ==
  IF ~a.ok THEN Raised
  ELSE [ok |-> TRUE, shape |-> a.shape, data |-> Computed([i \in DOMAIN a.data |-> Tanh(a.data[i])])]

IsZero(a) == a.ok /\ \A i \in DOMAIN a.data : a.data[i] = 0

(***************************************************************************)
(* The torch.nn layers the cell is built from.                             *)
(***************************************************************************)
\* the value of t at (b, c, y, x), 0 in the zero padding around it
Padded(t, b, c, y, x) ==
  IF y >= 1 /\ y <= t.shape[3] /\ x >= 1 /\ x <= t.shape[4] THEN t.data[<<b, c, y, x>>] ELSE 0

\* nn.Conv2d(in, out, k, stride, padding) applied to t: w[<<o, i, a, b>>] is the
\* weight, bs[o] the bias (all 0 without bias).  It raises on a wrong channel
\* count and when the kernel is larger than the padded input.
Conv2d(t, w, bs, inC, outC, k, stride, pad) ==
  IF ~t.ok THEN Raised
  ELSE IF t.shape[2] # inC THEN Raised
  ELSE IF t.shape[3] + 2 * pad[1] < k[1] \/ t.shape[4] + 2 * pad[2] < k[2] THEN Raised
  ELSE LET s == <<t.shape[1], outC,
                  (t.shape[3] + 2 * pad[1] - k[1]) \div stride[1] + 1,
                  (t.shape[4] + 2 * pad[2] - k[2]) \div stride[2] + 1>>
           \* the taps (input channel, kernel row, kernel column), numbered from 1
           TapC(q) == ((q - 1) \div (k[1] * k[2])) + 1
           TapY(q) == (((q - 1) \div k[2]) % k[1]) + 1
           TapX(q) == ((q - 1) % k[2]) + 1
           At(i) == RoundDiv(SumTo([q \in 1..(inC * k[1] * k[2]) |->
                                      w[<<i[2], TapC(q), TapY(q), TapX(q)>>]
                                      * Padded(t, i[1], TapC(q),
                                               (i[3] - 1) * stride[1] + TapY(q) - pad[1],
                                               (i[4] - 1) * stride[2] + TapX(q) - pad[2])],
                                   inC * k[1] * k[2]),
                             One) + bs[i[2]]
       IN [ok |-> TRUE, shape |-> s, data |-> Computed([i \in Idx4(s) |-> At(i)])]

\* whether a dropout mask keeps the element at index i
MaskKeeps(mask, i) ==
  CASE mask = "all" -> TRUE
    [] mask = "none" -> FALSE
    [] mask = "even" -> (i[1] + i[2] + i[3] + i[4]) % 2 = 0
    [] OTHER -> (i[1] + i[2] + i[3] + i[4]) % 2 = 1

\* nn.Dropout(p) with p in percent: the identity in evaluation mode and for
\* p = 0, else the kept elements scaled by 1 / (1 - p) and the others zeroed
Dropout(t, p, mask, training) ==
  IF ~t.ok THEN Raised
  ELSE IF ~training \/ p = 0 THEN t
  ELSE [ok |-> TRUE, shape |-> t.shape,
        data |-> Computed([i \in DOMAIN t.data |->
                    IF p < 100 /\ MaskKeeps(mask, i)
                    THEN RoundDiv(t.data[i] * 100, 100 - p) ELSE 0])]

\* (x - mean) / sqrt(var + eps) with the standard deviation sd in fixed point;
\* eps keeps the divisor positive
Normalized(x, mean, sd) == RoundDiv((x - mean) * One, IF sd < 1 THEN 1 ELSE sd)

\* the indices of channel c of a 4-D shape
ChannelIdx(s, c) == {i \in Idx4(s) : i[2] = c}

\* the indices of the (b, c) plane of a 4-D shape
PlaneIdx(s, b, c) == {i \in Idx4(s) : i[1] = b /\ i[2] = c}

MeanOver(t, S) == RoundDiv(SumSet(t.data, S), Cardinality(S))

SqDevFrom(t, S, m) == SumSet([i \in S |-> (t.data[i] - m) * (t.data[i] - m)], S)

SqDevOver(t, S) == SqDevFrom(t, S, MeanOver(t, S))

\* a fresh nn.BatchNorm2d(n): running_mean 0, running_var 1, num_batches_tracked 0
NewBatchNorm(n) ==
  [running_mean |-> [c \in 1..n |-> 0], running_var |-> [c \in 1..n |-> One],
   num_batches_tracked |-> 0]

\* the running statistics of nn.BatchNorm2d moved toward those of the batch t
\* (momentum 0.1, unbiased batch variance), and one more batch tracked
TrackedBuffers(bn, t) ==
  [running_mean |-> [c \in 1..t.shape[2] |->
                       RoundDiv(9 * bn.running_mean[c]
                                + MeanOver(t, ChannelIdx(t.shape, c)), 10)],
   running_var |-> [c \in 1..t.shape[2] |->
                      LET S == ChannelIdx(t.shape, c) IN
                      RoundDiv(9 * bn.running_var[c]
                               + RoundDiv(SqDevOver(t, S), (Cardinality(S) - 1) * One),
                               10)],
   num_batches_tracked |-> bn.num_batches_tracked + 1]

\* a faulty batch norm, whose running statistics move in evaluation mode too
BatchNormBuffersInEval(bn, t, training) ==
  IF ~t.ok THEN bn
  ELSE IF t.shape[2] # Len(bn.running_mean) THEN bn
  ELSE IF t.shape[1] * t.shape[3] * t.shape[4] <= 1 THEN bn
  ELSE TrackedBuffers(bn, t)

\* the buffers of nn.BatchNorm2d after one call on t: tracked in training mode
\* (unless the call raises), unchanged in evaluation mode
BatchNormBuffers(bn, t, training) ==
  IF ~training \/ ~t.ok THEN bn
  ELSE IF t.shape[2] # Len(bn.running_mean) THEN bn
  ELSE IF t.shape[1] * t.shape[3] * t.shape[4] <= 1 THEN bn
  ELSE TrackedBuffers(bn, t)

\* t with every element normalized by the mean and the standard deviation of
\* its group, group[i] naming the group of the element at i
NormalizedBy(t, mean, sd, group) ==
  [ok |-> TRUE, shape |-> t.shape,
   data |-> Computed([i \in DOMAIN t.data |->
                        Normalized(t.data[i], mean[group[i]], sd[group[i]])])]

\* the output of nn.BatchNorm2d (weight 1, bias 0): batch statistics in training
\* mode, the running statistics in evaluation mode.  It raises on a wrong
\* channel count and, in training mode, on a single value per channel.
BatchNormOut(bn, t, training) ==
  IF ~t.ok THEN Raised
  ELSE IF t.shape[2] # Len(bn.running_mean) THEN Raised
  ELSE IF training /\ t.shape[1] * t.shape[3] * t.shape[4] <= 1 THEN Raised
  ELSE NormalizedBy(t,
                    Computed([c \in 1..t.shape[2] |->
                                IF training THEN MeanOver(t, ChannelIdx(t.shape, c))
                                ELSE bn.running_mean[c]]),
                    Computed([c \in 1..t.shape[2] |->
                                IF training
                                THEN Isqrt(RoundDiv(SqDevOver(t, ChannelIdx(t.shape, c)),
                                                    Cardinality(ChannelIdx(t.shape, c))))
                                ELSE Isqrt(bn.running_var[c] * One)]),
                    [i \in DOMAIN t.data |-> i[2]])

\* the normalized shape of layer_norm_x and layer_norm_h
LayerNormSize == 4

\* nn.LayerNorm([4, 4], elementwise_affine=False): each (b, c) plane normalized
\* by its own mean and biased variance; any other plane size raises
LayerNorm(t) ==
  IF ~t.ok THEN Raised
  ELSE IF t.shape[3] # LayerNormSize \/ t.shape[4] # LayerNormSize THEN Raised
  ELSE NormalizedBy(t,
                    Computed([q \in (1..t.shape[1]) \X (1..t.shape[2]) |->
                                MeanOver(t, PlaneIdx(t.shape, q[1], q[2]))]),
                    Computed([q \in (1..t.shape[1]) \X (1..t.shape[2]) |->
                                Isqrt(RoundDiv(SqDevOver(t, PlaneIdx(t.shape, q[1], q[2])),
                                               LayerNormSize * LayerNormSize))]),
                    [i \in DOMAIN t.data |-> <<i[1], i[2]>>])

(***************************************************************************)
(* ConvLSTMCell.  A cell is a record of the constructor's arguments and    *)
(* the learned parameters: conv_w, conv_b of self.conv and rnn_w, rnn_b of *)
(* self.rnn_conv.                                                          *)
(***************************************************************************)
\* the bias of a convolution: the learned one, or none when bias is False
BiasOf(cell, bs) == IF cell.bias THEN bs ELSE [o \in 1..cell.hidden_dim |-> 0]

\* self.conv(x): the input convolution, with the cell's stride and padding
InputConv(cell, x) ==
  Conv2d(x, cell.conv_w, BiasOf(cell, cell.conv_b), cell.input_dim, cell.hidden_dim,
         cell.kernel_size, cell.stride, cell.padding)

\* self.rnn_conv(s): the recurrent convolution, stride 1 and padding floor(k / 2)
RnnConv(cell, s) ==
  Conv2d(s, cell.rnn_w, BiasOf(cell, cell.rnn_b), cell.hidden_dim, cell.hidden_dim,
         cell.kernel_size, <<1, 1>>,
         <<cell.kernel_size[1] \div 2, cell.kernel_size[2] \div 2>>)

\* lines 121-123: h_next, and what the call returns: the pair (h, c), with the
\* gates and the buffers of batch_norm_2d after the call; ok is FALSE when the
\* call raised
CellReturn(f, i, g, o, c_next, h_next, c_i, bn) ==
  [ok |-> h_next.ok /\ c_next.ok /\ c_i.ok, h |-> h_next, c |-> c_next,
   f |-> f, i |-> i, o |-> o, g |-> g, bn |-> bn]

CellHidden(f, i, g, o, c_next, c_i, bn) ==
  CellReturn(f, i, g, o, c_next, TMul(o, TTanh(c_next)), c_i, bn)

\* line 116: c_next from the gates and the dropped-out cell map c
CellUpdate(f, c, i, g) == TAdd(TMul(f, c), TMul(i, g))

CellState(f, i, g, o, c, c_i, bn) == CellHidden(f, i, g, o, CellUpdate(f, c, i, g), c_i, bn)

\* a faulty forget gate, whose peephole term adds the cell map to c_f
ForgetGateAdding(cell, x_f, h_f, c_f, c) ==
  IF cell.peephole
  THEN TSigmoid(TAdd(TAdd(x_f, h_f), TAdd(c_f, c)))
  ELSE TSigmoid(TAdd(x_f, h_f))

\* lines 107-112: the forget gate from x_f, h_f, c_f and the dropped-out cell map c
ForgetGate(cell, x_f, h_f, c_f, c) ==
  IF cell.peephole
  THEN TSigmoid(TAdd(TAdd(x_f, h_f), TMul(c_f, c)))
  ELSE TSigmoid(TAdd(x_f, h_f))

\* lines 107-112: the input gate
InputGate(cell, x_i, h_i, c_i, c) ==
  IF cell.peephole
  THEN TSigmoid(TAdd(TAdd(x_i, h_i), TMul(c_i, c)))
  ELSE TSigmoid(TAdd(x_i, h_i))

\* a faulty output gate, without the peephole term
OutputGateNoPeephole(cell, x_o, h_o, c_o, c) == TSigmoid(TAdd(x_o, h_o))

\* lines 117-120: the output gate
OutputGate(cell, x_o, h_o, c_o, c) ==
  IF cell.peephole
  THEN TSigmoid(TAdd(TAdd(x_o, h_o), TMul(c_o, c)))
  ELSE TSigmoid(TAdd(x_o, h_o))

\* lines 107-120: the gates from the maps xs = (x_i, x_f, x_c, x_o),
\* hs = (h_i, h_f, h_c, h_o) and cs = (c_i, c_f, c_o)
CellGates(cell, xs, hs, cs, c, bn) ==
  CellState(ForgetGate(cell, xs[2], hs[2], cs[2], c),
            InputGate(cell, xs[1], hs[1], cs[1], c),
            TTanh(TAdd(xs[3], hs[3])),
            OutputGate(cell, xs[4], hs[4], cs[3], c),
            c, cs[1], bn)

\* lines 97-105: layer_norm_x on each x map, layer_norm_h on each h map
CellLayerNorm(cell, xs, hs, cs, c, bn) ==
  IF cell.layer_norm
  THEN CellGates(cell,
                 <<LayerNorm(xs[1]), LayerNorm(xs[2]), LayerNorm(xs[3]), LayerNorm(xs[4])>>,
                 <<LayerNorm(hs[1]), LayerNorm(hs[2]), LayerNorm(hs[3]), LayerNorm(hs[4])>>,
                 cs, c, bn)
  ELSE CellGates(cell, xs, hs, cs, c, bn)

\* the buffers of batch_norm_2d after its calls on x_i, x_f, x_c and x_o
BatchNormBuffers4(bn, xs, training) ==
  BatchNormBuffers(
    BatchNormBuffers(
      BatchNormBuffers(BatchNormBuffers(bn, xs[1], training), xs[2], training),
      xs[3], training),
    xs[4], training)

\* lines 79-83: batch_norm_2d on each x map
CellBatchNorm(cell, bn, training, xs, hs, cs, c) ==
  IF cell.batch_norm
  THEN CellLayerNorm(cell,
                     <<BatchNormOut(bn, xs[1], training),
                       BatchNormOut(BatchNormBuffers(bn, xs[1], training), xs[2], training),
                       BatchNormOut(BatchNormBuffers(
                                      BatchNormBuffers(bn, xs[1], training), xs[2], training),
                                    xs[3], training),
                       BatchNormOut(BatchNormBuffers(
                                      BatchNormBuffers(
                                        BatchNormBuffers(bn, xs[1], training), xs[2], training),
                                      xs[3], training),
                                    xs[4], training)>>,
                     hs, cs, c, BatchNormBuffers4(bn, xs, training))
  ELSE CellLayerNorm(cell, xs, hs, cs, c, bn)

\* lines 74-77, 86-89, 92-94: the convolutions of the dropped-out maps x, h and c
CellConvs(cell, bn, training, x, h, c) ==
  CellBatchNorm(cell, bn, training,
                <<InputConv(cell, x), InputConv(cell, x), InputConv(cell, x),
                  InputConv(cell, x)>>,
                <<RnnConv(cell, h), RnnConv(cell, h), RnnConv(cell, h), RnnConv(cell, h)>>,
                <<RnnConv(cell, c), RnnConv(cell, c), RnnConv(cell, c)>>,
                c)

\* ConvLSTMCell.forward(input_tensor, cur_state) with the dropout draws mx, mh
\* and mc; bn is the state of self.batch_norm_2d
CellForward(cell, bn, training, input_tensor, h_cur, c_cur, mx, mh, mc) ==
  CellConvs(cell, bn, training,
            Dropout(input_tensor, cell.cnn_dropout, mx, training),
            Dropout(h_cur, cell.rnn_dropout, mh, training),
            Dropout(c_cur, cell.rnn_dropout, mc, training))

\* a faulty size, which forgets the stride
HiddenSizeUnstrided(size, k, p, s) == size - k + 2 * p + 1

\* ConvLSTMCell.init_hidden: the size of the two zero maps along one axis,
\* int((size - k + 2 * p) / s + 1), int() truncating toward zero
HiddenSize(size, k, p, s) ==
  LET n == size - k + 2 * p + s
  IN IF n >= 0 THEN n \div s ELSE 0 - ((0 - n) \div s)

\* ConvLSTMCell.init_hidden(batch_size, image_size)
init_hidden(cell, batch_size, image_size) ==
  LET height == HiddenSize(image_size[1], cell.kernel_size[1], cell.padding[1], cell.stride[1])
      width == HiddenSize(image_size[2], cell.kernel_size[2], cell.padding[2], cell.stride[2])
  IN <<Zeros(<<batch_size, cell.hidden_dim, height, width>>),
       Zeros(<<batch_size, cell.hidden_dim, height, width>>)>>

(***************************************************************************)
(* 5-D tensors and the list operations of ConvLSTM.forward.                *)
(***************************************************************************)
\* input_tensor.permute(1, 0, 2, 3, 4)
Permute10(t) ==
  LET s == <<t.shape[2], t.shape[1], t.shape[3], t.shape[4], t.shape[5]>>
  IN [rank |-> 5, shape |-> s,
      data |-> Computed([i \in Idx5(s) |-> t.data[<<i[2], i[1], i[3], i[4], i[5]>>]])]

\* input[:, t, :, :, :] with t counted from 0
TimeSlice(x, t) ==
  LET s == <<x.shape[1], x.shape[3], x.shape[4], x.shape[5]>>
  IN [ok |-> TRUE, shape |-> s,
      data |-> Computed([i \in Idx4(s) |-> x.data[<<i[1], t + 1, i[2], i[3], i[4]>>]])]

\* a faulty stack, which lays the list out last element first
StackBackwards(list) ==
  IF Len(list) = 0 THEN Raised
  ELSE IF \E n \in 1..Len(list) : list[n].shape # list[1].shape THEN Raised
  ELSE LET s == <<list[1].shape[1], Len(list), list[1].shape[2], list[1].shape[3],
                  list[1].shape[4]>>
       IN [ok |-> TRUE, shape |-> s,
           data |-> Computed([i \in Idx5(s) |->
                       list[Len(list) + 1 - i[2]].data[<<i[1], i[3], i[4], i[5]>>]])]

\* torch.stack(list, dim=1): raises on an empty list and on maps of different shapes
Stack(list) ==
  IF Len(list) = 0 THEN Raised
  ELSE IF \E n \in 1..Len(list) : list[n].shape # list[1].shape THEN Raised
  ELSE LET s == <<list[1].shape[1], Len(list), list[1].shape[2], list[1].shape[3],
                  list[1].shape[4]>>
       IN [ok |-> TRUE, shape |-> s,
           data |-> Computed([i \in Idx5(s) |-> list[i[2]].data[<<i[1], i[3], i[4], i[5]>>]])]

\* torch.cat((a, b), dim=2): raises unless the other four sizes agree
Cat2(a, b) ==
  IF ~a.ok \/ ~b.ok THEN Raised
  ELSE IF \E d \in {1, 2, 4, 5} : a.shape[d] # b.shape[d] THEN Raised
  ELSE LET s == <<a.shape[1], a.shape[2], a.shape[3] + b.shape[3], a.shape[4], a.shape[5]>>
       IN [ok |-> TRUE, shape |-> s,
           data |-> Computed([i \in Idx5(s) |->
                       IF i[3] <= a.shape[3] THEN a.data[i]
                       ELSE b.data[<<i[1], i[2], i[3] - a.shape[3], i[4], i[5]>>]])]

\* layer_output[:, -1:]
LastStep(a) ==
  IF ~a.ok THEN Raised
  ELSE LET s == <<a.shape[1], IF a.shape[2] = 0 THEN 0 ELSE 1, a.shape[3], a.shape[4],
                  a.shape[5]>>
       IN [ok |-> TRUE, shape |-> s,
           data |-> Computed([i \in Idx5(s) |-> a.data[<<i[1], a.shape[2], i[3], i[4], i[5]>>]])]

\* a faulty reverse, which leaves the list as it is
SameOrder(list) == list

\* list.reverse()
Reverse(list) == [n \in 1..Len(list) |-> list[Len(list) + 1 - n]]

(***************************************************************************)
(* The state: one ConvLSTM module (net, its mode and the buffers of its    *)
(* cell's batch_norm_2d), the position and locals of a running             *)
(* ConvLSTM.forward, and what its calls did.                               *)
(***************************************************************************)
VARIABLES
  net,           \* the ConvLSTM: cell, batch_first, return_sequence, bidirectional
  training,      \* nn.Module.training of the module
  bn,            \* the buffers of cell.batch_norm_2d
  pc,            \* "idle", "forward", "inverse", "returned", "raised"
  arg,           \* the arguments of the running call: input_tensor, hidden_state
  input,         \* input_tensor after the permute
  state,         \* [h, c] of the forward direction
  state_inv,     \* [h_inv, c_inv], <<>> when not bidirectional
  t,             \* the loop variable
  output_inner,  \* the list output_inner
  output_inv,    \* the list output_inv
  layer_output,  \* the stacked output_inner
  last_state,    \* last_state
  ret,           \* the returned triple
  error,         \* the exception raised, "" when none
  steps,         \* the cell calls of the running call, in order
  draws,         \* the dropout draws of the running call, in order
  history,       \* the finished calls: arguments, draws, result
  todo,          \* the calls the caller has yet to make
  cellCall,      \* a direct call of ConvLSTMCell.forward: arguments and result
  hiddenCall     \* a direct call of ConvLSTMCell.init_hidden: arguments and result

vars == <<net, training, bn, pc, arg, input, state, state_inv, t, output_inner, output_inv,
          layer_output, last_state, ret, error, steps, draws, history, todo, cellCall,
          hiddenCall>>

locals == <<input, state, state_inv, t, output_inner, output_inv, layer_output, last_state>>

\* the None of Python
None == <<>>

NoResult == [layer_output |-> Raised, last_state |-> None, last_state_inv |-> None]

\* the masks nn.Dropout draws from
MaskKinds == <<"all", "even", "none">>

\* the n-th dropout draw of a call whose random generator was seeded with seed
Draw(seed, n) == MaskKinds[((seed + n) % Len(MaskKinds)) + 1]

\* the call ends by raising kind
Raise(kind, a, d) ==
  /\ pc' = "raised"
  /\ error' = kind
  /\ ret' = NoResult
  /\ history' = Append(history, [arg |-> a, draws |-> d, ret |-> NoResult, error |-> kind])

\* line 250: the call returns
Return(lo, ls, ls_inv) ==
  LET r == [layer_output |-> IF net.return_sequence THEN lo ELSE LastStep(lo),
            last_state |-> ls,
            last_state_inv |-> IF net.bidirectional THEN ls_inv ELSE None]
  IN /\ pc' = "returned"
     /\ error' = ""
     /\ ret' = r
     /\ history' = Append(history, [arg |-> arg, draws |-> draws, ret |-> r, error |-> ""])

\* a faulty check, which lets every hidden_state through
AlwaysSupported(hidden_state) == FALSE

\* line 209: hidden_state is not None
Unsupported(hidden_state) == hidden_state # None

\* ConvLSTM.forward(input_tensor, hidden_state), lines 202-217: the permute,
\* the unpacking of the size, the check of hidden_state, the zero states
Call ==
  /\ pc \in {"idle", "returned", "raised"}
  /\ todo # <<>>
  /\ arg' = Head(todo)
  /\ todo' = Tail(todo)
  /\ steps' = <<>>
  /\ draws' = <<>>
  /\ output_inner' = <<>>
  /\ output_inv' = <<>>
  /\ layer_output' = Raised
  /\ last_state' = None
  /\ t' = 0
  /\ LET a == Head(todo)
         input_tensor == a.input_tensor
         hidden_state == a.hidden_state
     IN
     IF ~net.batch_first /\ input_tensor.rank # 5
     THEN Raise("RuntimeError", a, <<>>) /\ UNCHANGED <<input, state, state_inv>>
     ELSE IF input_tensor.rank # 5
     THEN Raise("ValueError", a, <<>>) /\ UNCHANGED <<input, state, state_inv>>
     ELSE LET x == IF net.batch_first THEN input_tensor ELSE Permute10(input_tensor)
              hidden == init_hidden(net.cell, x.shape[1], <<x.shape[4], x.shape[5]>>)
          IN IF Unsupported(hidden_state)
             THEN Raise("NotImplementedError", a, <<>>) /\ UNCHANGED <<input, state, state_inv>>
             ELSE IF ~hidden[1].ok
             THEN Raise("RuntimeError", a, <<>>) /\ UNCHANGED <<input, state, state_inv>>
             ELSE /\ pc' = "forward"
                  /\ input' = x
                  /\ state' = hidden
                  /\ state_inv' = IF net.bidirectional THEN hidden ELSE None
                  /\ UNCHANGED <<ret, error, history>>
  /\ UNCHANGED <<net, training, bn, cellCall, hiddenCall>>

\* the record of one cell call
StepRecord(dir, n, cur, r) ==
  [dir |-> dir, t |-> n, h_in |-> cur[1], c_in |-> cur[2], ok |-> r.ok,
   h_out |-> r.h, c_out |-> r.c, bn |-> r.bn]

\* one cell call of a loop, on time index n and the pair cur, with the draws m
Step(dir, n, cur, m) ==
  StepRecord(dir, n, cur,
             CellForward(net.cell, bn, training, TimeSlice(input, n), cur[1], cur[2],
                         m[1], m[2], m[3]))

\* lines 223-227: one iteration of the forward loop
ForwardStep ==
  /\ pc = "forward"
  /\ t < input.shape[2]
  /\ draws' = Append(draws, <<Draw(arg.seed, 3 * Len(draws)),
                                Draw(arg.seed, 3 * Len(draws) + 1),
                                Draw(arg.seed, 3 * Len(draws) + 2)>>)
  /\ steps' = Append(steps, Step("forward", t, state, draws'[Len(draws')]))
  /\ bn' = steps'[Len(steps')].bn
  /\ IF steps'[Len(steps')].ok
     THEN /\ state' = <<steps'[Len(steps')].h_out, steps'[Len(steps')].c_out>>
          /\ output_inner' = Append(output_inner, steps'[Len(steps')].h_out)
          /\ t' = t + 1
          /\ UNCHANGED <<pc, ret, error, history>>
     ELSE /\ Raise("RuntimeError", arg, draws')
          /\ UNCHANGED <<state, output_inner, t>>
  /\ UNCHANGED <<net, training, arg, input, state_inv, output_inv, layer_output, last_state,
                 todo, cellCall, hiddenCall>>

\* lines 228-236 (and 250 when not bidirectional): the end of the forward loop
ForwardEnd ==
  /\ pc = "forward"
  /\ t = input.shape[2]
  /\ LET stacked == Stack(output_inner) IN
     IF ~stacked.ok
     THEN Raise("RuntimeError", arg, draws) /\ UNCHANGED <<layer_output, last_state, t>>
     ELSE /\ layer_output' = stacked
          /\ last_state' = state
          /\ IF net.bidirectional
             THEN /\ pc' = "inverse"
                  /\ t' = input.shape[2] - 1
                  /\ UNCHANGED <<ret, error, history>>
             ELSE /\ Return(stacked, state, None)
                  /\ UNCHANGED t
  /\ UNCHANGED <<net, training, bn, arg, input, state, state_inv, output_inner, output_inv,
                 steps, draws, todo, cellCall, hiddenCall>>

\* lines 239-243: one iteration of the inverse loop
InverseStep ==
  /\ pc = "inverse"
  /\ t >= 0
  /\ draws' = Append(draws, <<Draw(arg.seed, 3 * Len(draws)),
                                Draw(arg.seed, 3 * Len(draws) + 1),
                                Draw(arg.seed, 3 * Len(draws) + 2)>>)
  /\ steps' = Append(steps, Step("inverse", t, state_inv, draws'[Len(draws')]))
  /\ bn' = steps'[Len(steps')].bn
  /\ IF steps'[Len(steps')].ok
     THEN /\ state_inv' = <<steps'[Len(steps')].h_out, steps'[Len(steps')].c_out>>
          /\ output_inv' = Append(output_inv, steps'[Len(steps')].h_out)
          /\ t' = t - 1
          /\ UNCHANGED <<pc, ret, error, history>>
     ELSE /\ Raise("RuntimeError", arg, draws')
          /\ UNCHANGED <<state_inv, output_inv, t>>
  /\ UNCHANGED <<net, training, arg, input, state, output_inner, layer_output, last_state,
                 todo, cellCall, hiddenCall>>

\* lines 244-250: the end of the inverse loop and the return
InverseEnd ==
  /\ pc = "inverse"
  /\ t < 0
  /\ output_inv' = Reverse(output_inv)
  /\ LET stacked == Stack(Reverse(output_inv))
         both == Cat2(layer_output, stacked)
     IN IF ~both.ok
        THEN Raise("RuntimeError", arg, draws) /\ UNCHANGED layer_output
        ELSE /\ layer_output' = both
             /\ Return(both, last_state, state_inv)
  /\ UNCHANGED <<net, training, bn, arg, input, state, state_inv, t, output_inner,
                 last_state, steps, draws, todo, cellCall, hiddenCall>>

(***************************************************************************)
(* Direct calls of the cell's two methods.                                 *)
(***************************************************************************)
NoCall == [pending |-> FALSE, done |-> FALSE, out |-> [ok |-> FALSE]]

\* ConvLSTMCell.forward(input_tensor, cur_state) called on its own
CellForwardCall ==
  /\ cellCall.pending
  /\ LET r == CellForward(cellCall.cell, cellCall.bn, cellCall.training,
                          cellCall.input_tensor, cellCall.cur_state[1],
                          cellCall.cur_state[2], cellCall.draws[1], cellCall.draws[2],
                          cellCall.draws[3])
     IN cellCall' = [cellCall EXCEPT !.pending = FALSE, !.done = TRUE, !.out = r]
  /\ UNCHANGED <<net, training, bn, pc, arg, locals, ret, error, steps, draws, history,
                 todo, hiddenCall>>

\* ConvLSTMCell.init_hidden(batch_size, image_size) called on its own
InitHiddenCall ==
  /\ hiddenCall.pending
  /\ hiddenCall' = [hiddenCall EXCEPT
                      !.pending = FALSE,
                      !.done = TRUE,
                      !.out = init_hidden(hiddenCall.cell, hiddenCall.batch_size,
                                          hiddenCall.image_size)]
  /\ UNCHANGED <<net, training, bn, pc, arg, locals, ret, error, steps, draws, history,
                 todo, cellCall>>

(***************************************************************************)
(* Construction.                                                           *)
(***************************************************************************)
\* the weight of a convolution: v[1] and v[2] alternating over the kernel
Kernel(outC, inC, k, v) ==
  [q \in (1..outC) \X (1..inC) \X (1..k[1]) \X (1..k[2]) |->
     IF (q[1] + q[2] + q[3] + q[4]) % 2 = 0 THEN v[1] ELSE v[2]]

\* ConvLSTMCell.__init__; params holds the values of the learned parameters
ConvLSTMCell(input_dim, hidden_dim, kernel_size, stride, padding, cnn_dropout, rnn_dropout, bias, peephole, batch_norm, layer_norm, params) ==
  [input_dim |-> input_dim, hidden_dim |-> hidden_dim, kernel_size |-> kernel_size,
   padding |-> padding, stride |-> stride, bias |-> bias, peephole |-> peephole,
   batch_norm |-> batch_norm, layer_norm |-> layer_norm,
   cnn_dropout |-> cnn_dropout, rnn_dropout |-> rnn_dropout,
   conv_w |-> Kernel(hidden_dim, input_dim, kernel_size, params.conv_w),
   conv_b |-> [o \in 1..hidden_dim |-> params.conv_b],
   rnn_w |-> Kernel(hidden_dim, hidden_dim, kernel_size, params.rnn_w),
   rnn_b |-> [o \in 1..hidden_dim |-> params.rnn_b]]

\* ConvLSTM.__init__
ConvLSTM(cell, batch_first, return_sequence, bidirectional) ==
  [cell |-> cell, batch_first |-> batch_first, return_sequence |-> return_sequence,
   bidirectional |-> bidirectional]

\* a 4-D map of shape s whose values follow a pattern set by seed and amp
Map4(s, seed, amp) ==
  [ok |-> TRUE, shape |-> s,
   data |-> Computed([i \in Idx4(s) |-> amp * (((seed + 3 * i[1] + i[2] + 2 * i[3] + i[4]) % 5) - 2)])]

\* a 5-D input of shape s whose values follow a pattern set by seed and amp
Input5(s, seed, amp) ==
  [rank |-> 5, shape |-> s,
   data |-> Computed([i \in Idx5(s) |->
               amp * (((seed + 3 * i[1] + 4 * i[2] + i[3] + 2 * i[4] + i[5]) % 5) - 2)])]

\* an input of another rank
InputOfRank(n) == [rank |-> n, shape |-> [d \in 1..n |-> 1], data |-> <<>>]

(***************************************************************************)
(* Direct calls of the cell: the arguments explored.                       *)
(***************************************************************************)
\* the largest kernel side of the cells init_hidden is called on
MaxKernel == 4

\* the largest image side init_hidden is called with
MaxImage == 4

\* values of the learned parameters
ParamSets ==
  { [conv_w |-> <<4, 4>>, conv_b |-> 1, rnn_w |-> <<4, 4>>, rnn_b |-> 2],
    [conv_w |-> <<4, -2>>, conv_b |-> 0, rnn_w |-> <<2, 4>>, rnn_b |-> -4],
    [conv_w |-> <<2, 0>>, conv_b |-> -1, rnn_w |-> <<0, 0>>, rnn_b |-> 0] }

Flags == [peephole : BOOLEAN, batch_norm : BOOLEAN, layer_norm : BOOLEAN]

\* one call of ConvLSTMCell.forward: a cell with a k x k kernel on an image
\* of side n, the maps following the seeds sx, sh and sc
CellCallOf(fl, bias, k, n, pr, drop, tr, sx, sh, sc, dr) ==
  [cell |-> ConvLSTMCell(1, 1, <<k, k>>, <<1, 1>>, <<k \div 2, k \div 2>>, drop[1], drop[2],
                         bias, fl.peephole, fl.batch_norm, fl.layer_norm, pr),
   bn |-> NewBatchNorm(1), training |-> tr,
   input_tensor |-> Map4(<<1, 1, n, n>>, sx[1], sx[2]),
   cur_state |-> <<Map4(<<1, 1, n, n>>, sh[1], sh[2]), Map4(<<1, 1, n, n>>, sc[1], sc[2])>>,
   draws |-> dr, pending |-> TRUE, done |-> FALSE, out |-> [ok |-> FALSE]]

MapSeeds == {<<0, 0>>, <<1, 2>>, <<3, 4>>}

DrawSets(tr, drop) ==
  IF tr /\ (drop[1] > 0 \/ drop[2] > 0)
  THEN {"all", "even"} \X {"all", "none"} \X {"all", "even", "none"}
  ELSE {<<"all", "all", "all">>}

\* a call on a small map, over every flag, mode, dropout rate and draw
SmallCellCall ==
  \E fl \in {f \in Flags : ~f.layer_norm}, bias \in BOOLEAN, k \in {1, 3}, pr \in ParamSets,
     sh \in {<<0, 0>>, <<3, 4>>}, sc \in MapSeeds, tr \in BOOLEAN,
     drop \in {<<0, 0>>, <<50, 50>>, <<0, 100>>} :
    \E dr \in DrawSets(tr, drop) :
      cellCall = CellCallOf(fl, bias, k, 2, pr, drop, tr, <<1, 2>>, sh, sc, dr)

\* a call on the 4 x 4 maps layer_norm asks for
LayerNormCellCall ==
  \E fl \in {f \in Flags : f.layer_norm}, pr \in ParamSets, tr \in BOOLEAN,
     sc \in {<<0, 0>>, <<1, 2>>}, dr \in {<<"all", "all", "all">>, <<"all", "even", "even">>} :
    cellCall = CellCallOf(fl, TRUE, 3, LayerNormSize, pr, <<0, 50>>, tr, <<1, 2>>, <<3, 4>>,
                          sc, dr)

\* a call of init_hidden: every kernel, stride, padding, image and batch size
HiddenCall ==
  \E hd \in 1..2, k \in (1..MaxKernel) \X (1..MaxKernel), st \in (1..2) \X (1..2),
     pd \in (0..1) \X (0..1), b \in 1..2, im \in (1..MaxImage) \X (1..MaxImage) :
    hiddenCall =
      [cell |-> ConvLSTMCell(1, hd, k, st, pd, 0, 0, TRUE, FALSE, FALSE, FALSE,
                             [conv_w |-> <<4, 4>>, conv_b |-> 0, rnn_w |-> <<4, 4>>,
                              rnn_b |-> 0]),
       batch_size |-> b, image_size |-> im, pending |-> TRUE, done |-> FALSE,
       out |-> None]

\* the runner at rest
RunnerIdle(n, tr, script) ==
  /\ net = n
  /\ training = tr
  /\ bn = NewBatchNorm(n.cell.hidden_dim)
  /\ pc = "idle"
  /\ arg = [input_tensor |-> InputOfRank(0), hidden_state |-> None, seed |-> 0]
  /\ input = InputOfRank(0)
  /\ state = None
  /\ state_inv = None
  /\ t = 0
  /\ output_inner = <<>>
  /\ output_inv = <<>>
  /\ layer_output = Raised
  /\ last_state = None
  /\ ret = NoResult
  /\ error = ""
  /\ steps = <<>>
  /\ draws = <<>>
  /\ history = <<>>
  /\ todo = script

DefaultNet ==
  ConvLSTM(ConvLSTMCell(1, 1, <<3, 3>>, <<1, 1>>, <<1, 1>>, 0, 0, TRUE, FALSE, FALSE, FALSE,
                        [conv_w |-> <<4, 4>>, conv_b |-> 0, rnn_w |-> <<4, 4>>, rnn_b |-> 0]),
           FALSE, TRUE, FALSE)

InitCell ==
  /\ RunnerIdle(DefaultNet, TRUE, <<>>)
  /\ \/ (SmallCellCall \/ LayerNormCellCall) /\ hiddenCall = NoCall
     \/ cellCall = NoCall /\ HiddenCall

NextCell == CellForwardCall \/ InitHiddenCall

\* the cell's methods called directly, once each
SpecCell == InitCell /\ [][NextCell]_vars

(***************************************************************************)
(* Whole calls of ConvLSTM.forward: the modules and the callers explored.  *)
(***************************************************************************)
\* the longest input sequence
MaxT == 2

Next == Call \/ ForwardStep \/ ForwardEnd \/ InverseStep \/ InverseEnd

\* one call of the module
CallOf(input_tensor, hidden_state, seed) ==
  [input_tensor |-> input_tensor, hidden_state |-> hidden_state, seed |-> seed]

\* a caller's state, passed where None is expected
GivenState == <<Zeros(<<1, 1, 1, 1>>), Zeros(<<1, 1, 1, 1>>)>>

\* whole calls on a 5-D input whose maps have side n: one call on a short and
\* on a long sequence, the same call twice, two different calls
Runs(n) ==
  { <<CallOf(Input5(<<1, MaxT, 1, n, n>>, 1, 2), None, 0)>>,
    <<CallOf(Input5(<<2, 1, 1, n, n>>, 3, 1), None, 2)>>,
    <<CallOf(Input5(<<2, MaxT, 1, n, n>>, 1, 2), None, 1),
      CallOf(Input5(<<2, MaxT, 1, n, n>>, 1, 2), None, 1)>>,
    <<CallOf(Input5(<<2, 1, 1, n, n>>, 3, 1), None, 0),
      CallOf(Input5(<<1, MaxT, 1, n, n>>, 1, 2), None, 1)>> }

\* calls that pass a hidden state, on a 5-D, a 4-D and a 6-D tensor, and a
\* call on a 6-D tensor without one
Refused ==
  { <<CallOf(Input5(<<2, MaxT, 1, 2, 2>>, 1, 2), GivenState, 0)>>,
    <<CallOf(InputOfRank(4), GivenState, 0)>>,
    <<CallOf(InputOfRank(6), GivenState, 0)>>,
    <<CallOf(InputOfRank(6), None, 0)>> }

\* what the callers of a module do: with layer_norm the maps are 4 x 4, and
\* 2 x 2 as well for one such module
Scripts(fl) ==
  IF ~fl.layer_norm THEN Runs(2) \cup Refused
  ELSE {r \in Runs(LayerNormSize) : Len(r) = 1}
       \cup (IF fl.peephole /\ fl.batch_norm THEN Runs(2) ELSE {})

\* a module of every configuration, in either mode, with 3 x 3 kernels that
\* keep the image size
Init ==
  \E fl \in Flags, bf \in BOOLEAN, rs \in BOOLEAN, bi \in BOOLEAN,
     md \in {<<FALSE, 50>>, <<TRUE, 0>>, <<TRUE, 50>>},
     pr \in {p \in ParamSets : p.rnn_b # 0} :
    \E script \in Scripts(fl) :
      /\ RunnerIdle(ConvLSTM(ConvLSTMCell(1, 1, <<3, 3>>, <<1, 1>>, <<1, 1>>, md[2], md[2],
                                          TRUE, fl.peephole, fl.batch_norm, fl.layer_norm,
                                          pr),
                             bf, rs, bi),
                    md[1], script)
      /\ cellCall = NoCall
      /\ hiddenCall = NoCall

\* the module called by its callers
Spec == Init /\ [][Next]_vars

\* a module without normalization, over every kernel, stride, padding and
\* image size, called once
InitShape ==
  \E k \in (1..3) \X (1..3), st \in {<<1, 1>>, <<2, 1>>}, pd \in {<<0, 0>>, <<1, 1>>},
     im \in {<<1, 1>>, <<2, 2>>, <<3, 3>>, <<2, 3>>, <<3, 1>>},
     bf \in BOOLEAN, rs \in BOOLEAN, bi \in BOOLEAN, pp \in BOOLEAN,
     d \in {<<1, 1>>, <<2, MaxT>>} :
    /\ RunnerIdle(ConvLSTM(ConvLSTMCell(1, 2, k, st, pd, 0, 0, TRUE, pp, FALSE, FALSE,
                                        [conv_w |-> <<4, -2>>, conv_b |-> 1,
                                         rnn_w |-> <<2, 4>>, rnn_b |-> -1]),
                           bf, rs, bi),
                  FALSE,
                  <<CallOf(Input5(<<d[1], d[2], 1, im[1], im[2]>>, 1, 2), None, 0)>>)
    /\ cellCall = NoCall
    /\ hiddenCall = NoCall

\* the module called once, over the geometries
SpecShape == InitShape /\ [][Next]_vars

(***************************************************************************)
(* Claims about the cell called directly, checked under SpecCell.          *)
(***************************************************************************)
\* the cell map the convolutions and the update of a finished direct call saw:
\* cur_state[1] after self.rnn_dropout
DroppedCell ==
  Dropout(cellCall.cur_state[2], cellCall.cell.rnn_dropout, cellCall.draws[3],
          cellCall.training)

\* the same call on a cell that differs only in peephole
OtherPeephole ==
  CellForward([cellCall.cell EXCEPT !.peephole = ~@], cellCall.bn, cellCall.training,
              cellCall.input_tensor, cellCall.cur_state[1], cellCall.cur_state[2],
              cellCall.draws[1], cellCall.draws[2], cellCall.draws[3])

CellCallDone == cellCall.done /\ cellCall.out.ok

\* C5 as claimed: for every dropout rate and configuration the returned
\* cell_next is f * cell_prev + i * g and hidden_next is o * tanh(cell_next),
\* with cell_prev the cell state the caller passed in (cur_state[1] of the
\* pair counted from 0), dropout only touching what the convolutions read.
C5_UpdateUsesPassedCell ==
  CellCallDone =>
    /\ cellCall.out.c = TAdd(TMul(cellCall.out.f, cellCall.cur_state[2]),
                             TMul(cellCall.out.i, cellCall.out.g))
    /\ cellCall.out.h = TMul(cellCall.out.o, TTanh(cellCall.out.c))

\* C6 as claimed: against the same call with peephole flipped, the forget,
\* input and output gates differ whenever cell_prev is non-zero and are
\* identical whenever cell_prev is exactly zero.
C6_PeepholeAlwaysChangesGates ==
  CellCallDone =>
    LET other == OtherPeephole IN
    IF IsZero(cellCall.cur_state[2])
    THEN cellCall.out.f = other.f /\ cellCall.out.i = other.i /\ cellCall.out.o = other.o
    ELSE cellCall.out.f # other.f /\ cellCall.out.i # other.i /\ cellCall.out.o # other.o

\* C6 as amended: with cell_prev exactly zero the three gates are identical
\* with and without peephole (also with a bias in the recurrent convolution);
\* with cell_prev non-zero a gate can differ only at an element where the
\* peephole term rnn_conv(c) * c of the dropped-out cell map c is non-zero.
C6_PeepholeChangesOnlyByTerm ==
  CellCallDone =>
    LET other == OtherPeephole
        term == TMul(RnnConv(cellCall.cell, DroppedCell), DroppedCell)
    IN /\ other.ok
       /\ IsZero(cellCall.cur_state[2]) =>
            cellCall.out.f = other.f /\ cellCall.out.i = other.i /\ cellCall.out.o = other.o
       /\ \A n \in DOMAIN other.f.data :
            (\/ cellCall.out.f.data[n] # other.f.data[n]
             \/ cellCall.out.i.data[n] # other.i.data[n]
             \/ cellCall.out.o.data[n] # other.o.data[n]) => term.data[n] # 0

\* a peephole call with a bias, a zero cell_prev and a non-zero hidden_prev
C6_Witness ==
  /\ CellCallDone
  /\ cellCall.cell.peephole /\ cellCall.cell.bias /\ cellCall.cell.rnn_b[1] # 0
  /\ IsZero(cellCall.cur_state[2]) /\ ~IsZero(cellCall.cur_state[1])
  /\ cellCall.out.f = OtherPeephole.f

\* C10: in every configuration of peephole, batch_norm and layer_norm the
\* gates i, f and o of one call are equal element for element, so that
\* cell_next = f * c + f * g and hidden_next = f * tanh(cell_next), c being the
\* dropped-out cell map.
C10_GatesEqual ==
  CellCallDone =>
    /\ cellCall.out.i = cellCall.out.f
    /\ cellCall.out.o = cellCall.out.f
    /\ cellCall.out.c = TAdd(TMul(cellCall.out.f, DroppedCell),
                             TMul(cellCall.out.f, cellCall.out.g))
    /\ cellCall.out.h = TMul(cellCall.out.f, TTanh(cellCall.out.c))

\* a call with peephole, batch_norm and layer_norm all enabled, a non-zero
\* cell map and gates that are not all saturated
C10_Witness ==
  /\ CellCallDone
  /\ cellCall.cell.peephole /\ cellCall.cell.batch_norm /\ cellCall.cell.layer_norm
  /\ ~IsZero(DroppedCell)
  /\ \E n, m \in DOMAIN cellCall.out.f.data : cellCall.out.f.data[n] # cellCall.out.f.data[m]

\* floor((size - k + 2 * p) / s) + 1
FloorSize(size, k, p, s) == ((size - k + 2 * p) \div s) + 1

\* the kernel fits the padded image along both axes
KernelFits(cell, image_size) ==
  /\ image_size[1] + 2 * cell.padding[1] >= cell.kernel_size[1]
  /\ image_size[2] + 2 * cell.padding[2] >= cell.kernel_size[2]

\* what C7 says init_hidden returned
HiddenAsDocumented ==
  LET cell == hiddenCall.cell
      s == <<hiddenCall.batch_size, cell.hidden_dim,
             FloorSize(hiddenCall.image_size[1], cell.kernel_size[1], cell.padding[1],
                       cell.stride[1]),
             FloorSize(hiddenCall.image_size[2], cell.kernel_size[2], cell.padding[2],
                       cell.stride[2])>>
      x == InputConv(cell, Zeros(<<hiddenCall.batch_size, cell.input_dim,
                                   hiddenCall.image_size[1], hiddenCall.image_size[2]>>))
  IN /\ hiddenCall.out[1].ok /\ hiddenCall.out[2].ok
     /\ hiddenCall.out[1].shape = s /\ hiddenCall.out[2].shape = s
     /\ IsZero(hiddenCall.out[1]) /\ IsZero(hiddenCall.out[2])
     /\ x.ok /\ x.shape = s

\* C7 as claimed: for every batch size, image size, kernel, stride and
\* padding init_hidden returns two all-zero maps of shape (batch_size,
\* hidden_dim, H', W'), H' and W' the floor formula, the size the input
\* convolution produces.
C7_HiddenForEveryGeometry == hiddenCall.done => HiddenAsDocumented

\* C7 as amended: the same, for every geometry in which the kernel fits the
\* padded image (H + 2 * ph >= kh and W + 2 * pw >= kw).
C7_HiddenWhenKernelFits ==
  (hiddenCall.done /\ KernelFits(hiddenCall.cell, hiddenCall.image_size)) => HiddenAsDocumented

\* init_hidden has returned for a stride that does not divide the padded extent
C7_Witness ==
  /\ hiddenCall.done
  /\ KernelFits(hiddenCall.cell, hiddenCall.image_size)
  /\ hiddenCall.cell.stride = <<2, 2>>
  /\ hiddenCall.image_size = <<4, 3>> /\ hiddenCall.cell.kernel_size = <<3, 1>>
  /\ hiddenCall.cell.padding = <<0, 1>>
  /\ hiddenCall.out[1].shape = <<hiddenCall.batch_size, hiddenCall.cell.hidden_dim, 1, 3>>

(***************************************************************************)
(* Claims about whole calls of ConvLSTM.forward.                           *)
(***************************************************************************)
\* the running or finished call was given a hidden state
StateGiven == pc # "idle" /\ arg.hidden_state # None

\* the call ended in NotImplementedError before any cell step, returning nothing
RefusedCall == pc = "raised" /\ error = "NotImplementedError" /\ steps = <<>> /\ ret = NoResult

\* C1 as claimed: in every configuration and for every input_tensor, a call
\* with a hidden_state that is not None ends in NotImplementedError, no other
\* error comes first, no cell step is performed and nothing is returned.
C1_GivenStateRefused == StateGiven => RefusedCall

\* C1 as amended: the same, for every 5-D input_tensor.
C1_GivenStateRefusedOn5D == (StateGiven /\ arg.input_tensor.rank = 5) => RefusedCall

\* a bidirectional module with batch_norm has refused a 5-D input with a state
C1_Witness ==
  /\ StateGiven /\ RefusedCall
  /\ arg.input_tensor.rank = 5 /\ arg.input_tensor.shape[2] = MaxT
  /\ net.bidirectional /\ net.cell.batch_norm /\ ~net.batch_first

\* B and T of the call's input_tensor, read by batch_first
BatchOf(a) == IF net.batch_first THEN a.input_tensor.shape[1] ELSE a.input_tensor.shape[2]

LengthOf(a) == IF net.batch_first THEN a.input_tensor.shape[2] ELSE a.input_tensor.shape[1]

\* the shape of the maps init_hidden returns for the call's input_tensor
HiddenShape ==
  init_hidden(net.cell, BatchOf(arg),
              <<arg.input_tensor.shape[4], arg.input_tensor.shape[5]>>)[1].shape

\* C2: for every T >= 1 and hidden_state None the returned output has shape
\* (B, T', C', H', W'): T' is T with return_sequence and 1 without, C' is
\* hidden_dim when unidirectional and 2 * hidden_dim when bidirectional,
\* (H', W') is the state shape of init_hidden, for both values of batch_first.
C2_OutputShape ==
  pc = "returned" =>
    /\ ret.layer_output.ok
    /\ ret.layer_output.shape =
         <<BatchOf(arg),
           IF net.return_sequence THEN LengthOf(arg) ELSE 1,
           IF net.bidirectional THEN 2 * net.cell.hidden_dim ELSE net.cell.hidden_dim,
           HiddenShape[3], HiddenShape[4]>>

\* C3: for every kernel_size, stride and padding, hidden and cell have the
\* same shape after every cell step, and it is the shape init_hidden produced:
\* the recurrent convolution never changes the spatial size of the state.
C3_StateShapeFixed ==
  \A n \in 1..Len(steps) :
    steps[n].ok =>
      /\ steps[n].h_out.shape = steps[n].c_out.shape
      /\ steps[n].h_out.shape = HiddenShape
      /\ steps[n].h_in.shape = HiddenShape /\ steps[n].c_in.shape = HiddenShape

\* the cell calls of the forward loop, in the order they were made
ForwardSteps == SelectSeq(steps, LAMBDA r : r.dir = "forward")

\* the map at time index n (from 0) of channels first + 1 .. first + count of
\* a 5-D output
OutputAt(out, n, first, count) ==
  LET s == <<out.shape[1], count, out.shape[4], out.shape[5]>>
  IN [ok |-> TRUE, shape |-> s,
      data |-> [i \in Idx4(s) |-> out.data[<<i[1], n + 1, first + i[2], i[3], i[4]>>]]]

\* the steps of the forward loop so far are steps 0, 1, ... in this order,
\* the first on the zero state of init_hidden, each later one on the pair the
\* step before it returned
ForwardThreaded(fw) ==
  /\ \A n \in 1..Len(fw) : fw[n].t = n - 1 /\ steps[n] = fw[n] /\ fw[n].ok
  /\ Len(fw) >= 1 =>
       /\ <<fw[1].h_in, fw[1].c_in>> =
            init_hidden(net.cell, input.shape[1], <<input.shape[4], input.shape[5]>>)
       /\ IsZero(fw[1].h_in) /\ IsZero(fw[1].c_in)
  /\ \A n \in 2..Len(fw) : fw[n].h_in = fw[n - 1].h_out /\ fw[n].c_in = fw[n - 1].c_out

\* what a finished forward loop of T steps left: the output at every time
\* index and the terminal state
ForwardCollected(fw, T) ==
  /\ Len(fw) = T
  /\ layer_output.shape[2] = T
  /\ \A n \in 1..T : OutputAt(layer_output, n - 1, 0, net.cell.hidden_dim) = fw[n].h_out
  /\ last_state = <<fw[T].h_out, fw[T].c_out>>

\* what the call returned of the forward loop
ForwardReturned(fw, T) ==
  /\ ret.last_state = <<fw[T].h_out, fw[T].c_out>>
  /\ OutputAt(ret.layer_output, ret.layer_output.shape[2] - 1, 0, net.cell.hidden_dim)
       = ret.last_state[1]
  /\ net.return_sequence =>
       \A n \in 1..T : OutputAt(ret.layer_output, n - 1, 0, net.cell.hidden_dim) = fw[n].h_out

\* C9: the forward pass steps the cell exactly once per time index, in the
\* order t = 0, 1, ..., T-1; step 0 consumes the all-zero state of init_hidden,
\* every later step the pair returned by the step before it; the hidden output
\* stored at output time index t is the one step t returned, and the returned
\* forward terminal state is the pair step T-1 returned, the last time slice
\* of the forward output channels.
C9_ForwardOrder ==
  /\ pc \in {"forward", "inverse", "returned"} =>
       /\ ForwardThreaded(ForwardSteps)
       /\ Len(ForwardSteps) = IF pc = "forward" THEN t ELSE input.shape[2]
  /\ pc \in {"inverse", "returned"} => ForwardCollected(ForwardSteps, input.shape[2])
  /\ pc = "returned" => ForwardReturned(ForwardSteps, input.shape[2])

\* a call on the longest sequence has returned the whole sequence, and its
\* forward steps returned different non-zero hidden maps
C9_Witness ==
  /\ pc = "returned" /\ net.return_sequence /\ input.shape[2] = MaxT
  /\ ~IsZero(ForwardSteps[1].h_out)
  /\ ForwardSteps[1].h_out # ForwardSteps[MaxT].h_out
  /\ ForwardSteps[MaxT].h_in = ForwardSteps[MaxT - 1].h_out

\* the cell calls made so far, over the finished calls and the running one
CellStepsMade ==
  SumTo([k \in 1..Len(history) |-> Len(history[k].draws)], Len(history))
  + (IF pc \in {"forward", "inverse"} THEN Len(steps) ELSE 0)

\* two finished calls with the same arguments and the same dropout draws ended
\* the same way
Repeatable ==
  \A a, b \in 1..Len(history) :
    (history[a].arg = history[b].arg /\ history[a].draws = history[b].draws) =>
      (history[a].ret = history[b].ret /\ history[a].error = history[b].error)

ReverseTime(x) ==
  [rank |-> 5, shape |-> x.shape,
   data |-> Computed([i \in Idx5(x.shape) |->
               x.data[<<i[1], x.shape[2] + 1 - i[2], i[3], i[4], i[5]>>]])]

RECURSIVE RunFrom(_, _, _, _, _, _, _)

\* lines 225-227: the pair of step n goes into step n + 1, its h into the outputs
RunNext(cell, tr, x, n, outs, r) ==
  IF ~r.ok THEN [ok |-> FALSE, outputs |-> outs, last |-> None]
  ELSE RunFrom(cell, r.bn, tr, x, n + 1, <<r.h, r.c>>, Append(outs, r.h))

\* lines 223-230 from time index n on: the forward loop without dropout draws
RunFrom(cell, b, tr, x, n, cur, outs) ==
  IF n >= x.shape[2] THEN [ok |-> TRUE, outputs |-> outs, last |-> cur]
  ELSE RunNext(cell, tr, x, n, outs,
               CellForward(cell, b, tr, TimeSlice(x, n), cur[1], cur[2], "all", "all", "all"))

\* lines 213-230: the forward pass on the input x (B, T, C, H, W), its
\* hidden maps in time order and its terminal state
RunForward(cell, b, tr, x) ==
  RunFrom(cell, b, tr, x, 0, init_hidden(cell, x.shape[1], <<x.shape[4], x.shape[5]>>), <<>>)

\* no dropout mask is drawn: evaluation mode, or both rates 0
NoDropoutRandomness == ~training \/ (net.cell.cnn_dropout = 0 /\ net.cell.rnn_dropout = 0)

\* the backward pass left at every time index n of its re-reversed output
\* the hidden map fwd has at index T-1-n, and fwd's terminal state
BackwardMatches(fwd, T) ==
  /\ fwd.ok
  /\ Len(output_inv) = T
  /\ \A n \in 0..(T - 1) : output_inv[n + 1] = fwd.outputs[T - n]
  /\ state_inv = fwd.last
  /\ ret.last_state_inv = fwd.last
  /\ \A n \in 0..(T - 1) :
       OutputAt(layer_output, n, net.cell.hidden_dim, net.cell.hidden_dim) = fwd.outputs[T - n]

\* C4: with identical weights and no dropout randomness, the backward pass of
\* a bidirectional call on X yields, at every time index t of its re-reversed
\* output, the hidden state the forward pass yields at index T-1-t on X with
\* its time order reversed, and the backward terminal state is the forward
\* terminal state on the reversed input.
C4_BackwardIsForwardOnReversed ==
  (pc = "returned" /\ net.bidirectional /\ NoDropoutRandomness) =>
    BackwardMatches(RunForward(net.cell, bn, training, ReverseTime(input)), input.shape[2])

\* a bidirectional call on the longest sequence has returned; the input is
\* not its own reverse and the backward hidden maps differ over time and
\* from the forward ones
C4_Witness ==
  /\ pc = "returned" /\ net.bidirectional /\ NoDropoutRandomness
  /\ input.shape[2] = MaxT /\ ReverseTime(input) # input
  /\ output_inv[1] # output_inv[MaxT]
  /\ output_inv # output_inner
  /\ ~IsZero(output_inv[1])

====
